---------------------------- MODULE Spec2Model ----------------------------
(* SocraticBot: the answer evaluator of core.py (ResponseGenerator over a   *)
(* LearningProgress) driven by the student application's session           *)
(* (student_app.py: one script run per widget interaction).                *)
(*                                                                         *)
(* Texts are sequences of characters so that str.strip() is computed.      *)
(* Similarities are in hundredths (0.85 is 85).  The chat transcript       *)
(* st.session_state.messages is display-only and is not modelled.          *)
EXTENDS Integers, Sequences, FiniteSets, TLC

(* ------------------------------ bounds --------------------------------- *)

\* answers are accepted while progress.attempts is below this
MaxAttempts == 6

(* ------------------------------ inputs --------------------------------- *)

\* cosine similarities the oracle can return: below, at and above 0.85
Similarities == {50, 85, 86}

\* raw texts the chat model can return, before strip()
LlmTexts == { <<" ">>, <<"a">>, <<"a", " ">>, <<" ", "b">> }

\* exercises found in the exercises directory; the selectbox shows the first
Exercises == {"ex1", "ex2"}

DefaultExercise == "ex1"

\* outcome of _calculate_similarity: a value, or an exception
OracleResults ==
    {[raised |-> FALSE, value |-> s] : s \in Similarities}
        \cup {[raised |-> TRUE, value |-> 0]}

\* outcome of the straight-line hint pipeline of lines 95-98: the first
\* collaborator that raises (retriever, prompt formatting, chat model), or
\* the text the chat model returns
HintingResults ==
    {[raised |-> who, value |-> <<>>] : who \in {"retriever", "format", "llm"}}
        \cup {[raised |-> "nobody", value |-> t] : t \in LlmTexts}

\* session_state has no "vector_db" key
NoDb == "no_vector_db"

NoExercise == "no_exercise"

NoTemplate == "no_template"

(* ------------------------------ core.py -------------------------------- *)

similarity_threshold == 85

LearningProgress == [completed |-> FALSE, attempts |-> 0, hints_given |-> <<>>]

RECURSIVE lstrip(_)
lstrip(text) ==
    IF text # <<>> /\ Head(text) = " " THEN lstrip(Tail(text)) ELSE text

RECURSIVE rstrip(_)
rstrip(text) ==
    IF text # <<>> /\ text[Len(text)] = " "
    THEN rstrip(SubSeq(text, 1, Len(text) - 1))
    ELSE text

strip(text) == rstrip(lstrip(text))

\* Python's "x in list"
In(x, list) == \E i \in 1..Len(list) : list[i] = x

NoResponse == [kind |-> "none", text |-> "", hint |-> <<>>, n |-> 0]

FallbackMessage ==
    [kind |-> "fallback",
     text |-> "I encountered an issue processing your answer. Please try again.",
     hint |-> <<>>, n |-> 0]

ApologyMessage ==
    [kind |-> "apology",
     text |-> "I encountered an issue generating feedback. Please try again or rephrase your answer.",
     hint |-> <<>>, n |-> 0]

_get_encouragement(attempts) ==
    CASE attempts = 0 -> "Let's start exploring this together!"
      [] attempts = 1 -> "You're making progress! Keep thinking about it."
      [] attempts = 2 -> "You're getting closer! Consider these points:"
      [] attempts = 3 -> "Don't give up! Here's a different way to think about it:"
      [] attempts = 4 -> "You're putting in great effort! Let's break this down further:"
      [] OTHER -> "Keep persevering! Here's some guidance:"

\* variant: the line is looked up after attempts has been incremented
_format_response_after_increment(hint, progress) ==
    [kind |-> "hint", text |-> _get_encouragement(progress.attempts + 1),
     hint |-> hint, n |-> 0]

_format_response(hint, progress) ==
    [kind |-> "hint", text |-> _get_encouragement(progress.attempts),
     hint |-> hint, n |-> 0]

\* variant: the message reports attempts, not attempts + 1
_handle_correct_answer_reports_attempts(progress) ==
    IF ~progress.completed
    THEN [progress |-> [progress EXCEPT !.completed = TRUE],
          response |-> [kind |-> "congratulations",
                        text |-> IF progress.attempts = 0
                                 THEN "first try" ELSE "after n attempts",
                        hint |-> <<>>,
                        n |-> IF progress.attempts = 0
                              THEN 0 ELSE progress.attempts]]
    ELSE [progress |-> progress,
          response |-> [kind |-> "placeholder", text |-> ".",
                        hint |-> <<>>, n |-> 0]]

\* variant: progress.completed is not consulted
_handle_correct_answer_always_congratulates(progress) ==
    [progress |-> [progress EXCEPT !.completed = TRUE],
     response |-> [kind |-> "congratulations",
                   text |-> IF progress.attempts = 0
                            THEN "first try" ELSE "after n attempts",
                   hint |-> <<>>,
                   n |-> IF progress.attempts = 0
                         THEN 0 ELSE progress.attempts + 1]]

\* the result carries the progress object as the call left it
_handle_correct_answer(progress) ==
    IF ~progress.completed
    THEN [progress |-> [progress EXCEPT !.completed = TRUE],
          response |-> [kind |-> "congratulations",
                        text |-> IF progress.attempts = 0
                                 THEN "first try" ELSE "after n attempts",
                        hint |-> <<>>,
                        n |-> IF progress.attempts = 0
                              THEN 0 ELSE progress.attempts + 1]]
    ELSE [progress |-> progress,
          response |-> [kind |-> "placeholder", text |-> ".",
                        hint |-> <<>>, n |-> 0]]

\* variant: the second tier extends to attempts = 3
_get_dynamic_prompt_template_through_3(progress) ==
    IF progress.attempts = 0 THEN "first_attempt"
    ELSE IF progress.attempts <= 3 THEN "making_progress"
    ELSE "struggling"

_get_dynamic_prompt_template(progress) ==
    IF progress.attempts = 0 THEN "first_attempt"
    ELSE IF progress.attempts < 3 THEN "making_progress"
    ELSE "struggling"

\* from_template/format_prompt run outside the inner try, llm.generate in it
_generate_llm_response(template, progress, hinting) ==
    IF hinting.raised = "format"
    THEN [raised |-> TRUE, progress |-> progress, response |-> NoResponse]
    ELSE IF hinting.raised = "llm"
    THEN [raised |-> FALSE, progress |-> progress, response |-> ApologyMessage]
    ELSE LET hint == strip(hinting.value)
             after == IF ~In(hint, progress.hints_given)
                      THEN [progress EXCEPT
                              !.hints_given = Append(@, hint)]
                      ELSE progress
         IN  [raised |-> FALSE, progress |-> after,
              response |-> _format_response(hint, after)]

\* variant: attempts is incremented before the context is retrieved
generate_response_counts_first(progress, oracle, hinting) ==
    IF oracle.raised
    THEN [progress |-> progress, response |-> FallbackMessage,
          template |-> NoTemplate]
    ELSE IF oracle.value > similarity_threshold
    THEN LET r == _handle_correct_answer(progress)
         IN  [progress |-> r.progress, response |-> r.response,
              template |-> NoTemplate]
    ELSE LET counted == [progress EXCEPT !.attempts = @ + 1]
         IN  IF hinting.raised = "retriever"
             THEN [progress |-> counted, response |-> FallbackMessage,
                   template |-> NoTemplate]
             ELSE LET template == _get_dynamic_prompt_template(progress)
                      r == _generate_llm_response(template, progress, hinting)
                  IN  IF r.raised
                      THEN [progress |-> [r.progress EXCEPT !.attempts = @ + 1],
                            response |-> FallbackMessage,
                            template |-> template]
                      ELSE [progress |-> [r.progress EXCEPT !.attempts = @ + 1],
                            response |-> r.response, template |-> template]

\* variant: attempts is not incremented
generate_response_no_increment(progress, oracle, hinting) ==
    IF oracle.raised
    THEN [progress |-> progress, response |-> FallbackMessage,
          template |-> NoTemplate]
    ELSE IF oracle.value > similarity_threshold
    THEN LET r == _handle_correct_answer(progress)
         IN  [progress |-> r.progress, response |-> r.response,
              template |-> NoTemplate]
    ELSE IF hinting.raised = "retriever"
    THEN [progress |-> progress, response |-> FallbackMessage,
          template |-> NoTemplate]
    ELSE LET template == _get_dynamic_prompt_template(progress)
             r == _generate_llm_response(template, progress, hinting)
         IN  [progress |-> r.progress,
              response |-> IF r.raised THEN FallbackMessage ELSE r.response,
              template |-> template]

generate_response(progress, oracle, hinting) ==
    IF oracle.raised
    THEN [progress |-> progress, response |-> FallbackMessage,
          template |-> NoTemplate]
    ELSE IF oracle.value > similarity_threshold
    THEN LET r == _handle_correct_answer(progress)
         IN  [progress |-> r.progress, response |-> r.response,
              template |-> NoTemplate]
    ELSE IF hinting.raised = "retriever"
    THEN [progress |-> progress, response |-> FallbackMessage,
          template |-> NoTemplate]
    ELSE LET template == _get_dynamic_prompt_template(progress)
             r == _generate_llm_response(template, progress, hinting)
         IN  IF r.raised
             THEN [progress |-> r.progress, response |-> FallbackMessage,
                   template |-> template]
             ELSE [progress |-> [r.progress EXCEPT !.attempts = @ + 1],
                   response |-> r.response, template |-> template]

(* --------------------------- student_app.py ---------------------------- *)

VARIABLES
    progress,          \* st.session_state.progress
    vector_db,         \* st.session_state.vector_db: the exercise whose PDF it holds
    selected_exercise, \* value of the "Select Exercise" selectbox
    load_status,       \* what the last run's materials load displayed
    builds,            \* number of vector stores create_vector_db has returned
    congratulations,   \* number of congratulation messages returned
    hint_run,          \* k when all k calls so far returned a hint, else -1
    call               \* the last generate_response call: arguments and result

vars == <<progress, vector_db, selected_exercise, load_status, builds,
          congratulations, hint_run, call>>

NoCall ==
    [exercise |-> NoExercise, vector_db |-> NoDb, before |-> LearningProgress,
     oracle |-> [raised |-> TRUE, value |-> 0],
     hinting |-> [raised |-> "retriever", value |-> <<>>],
     template |-> NoTemplate, response |-> NoResponse]

Init ==
    /\ progress = LearningProgress
    /\ vector_db = NoDb
    /\ selected_exercise = DefaultExercise
    /\ load_status = "none"
    /\ builds = 0
    /\ congratulations = 0
    /\ hint_run = 0
    /\ call = NoCall

(* ----------------- the exercises directory (teacher_app.py) ------------- *)

\* seconds of datetime.now() the session lasts; an exercise id is the second
\* of its creation
MaxTime == 2

ExerciseIds == 1..MaxTime

\* the four inputs of the create and edit forms
Fields == {"title", "question", "correct_answer", "pdf_file"}

\* a write raises before the file is opened, or after it was opened and
\* truncated; an unlink raises or removes the file
WriteOutcomes == {"ok", "not_opened", "partial"}

UnlinkOutcomes == {"ok", "raises"}

VARIABLES
    exercises_dir,     \* exercise id -> state of <id>.json and of <id>.pdf
    now,               \* datetime.now(), in seconds
    handled            \* the last form or button handled, and the files before it

teacher_vars == <<exercises_dir, now, handled>>

NoFiles == [id \in ExerciseIds |-> [json |-> "absent", pdf |-> "absent"]]

TeacherInit ==
    /\ exercises_dir = NoFiles
    /\ now = 1
    /\ handled = [kind |-> "none", id |-> 1, filled |-> {}, before |-> NoFiles]

\* both applications before their first interaction
SessionInit == Init /\ TeacherInit

(* ---------------------- student_app.py: script runs -------------------- *)

\* variant: the store is rebuilt in every run
LoadMaterials_every_run(e, ok) ==
    IF ok
    THEN /\ vector_db' = e
         /\ builds' = builds + 1
         /\ load_status' = "success"
    ELSE /\ load_status' = "error"
         /\ UNCHANGED <<vector_db, builds>>

\* lines 59-69 of a run that shows exercise  e
LoadMaterials(e, ok) ==
    IF vector_db # NoDb
    THEN /\ load_status' = "none"
         /\ UNCHANGED <<vector_db, builds>>
    ELSE IF ok
    THEN /\ vector_db' = e
         /\ builds' = builds + 1
         /\ load_status' = "success"
    ELSE /\ load_status' = "error"
         /\ UNCHANGED <<vector_db, builds>>

\* a script run without an answer: the selectbox is left at or moved to  e
Run(e, ok) ==
    /\ selected_exercise' = e
    /\ LoadMaterials(e, ok)
    /\ UNCHANGED <<progress, congratulations, hint_run, call>>
    /\ UNCHANGED teacher_vars

\* the student submits an answer; the chat input exists only in a run that
\* got past the materials load
SubmitAnswer(oracle, hinting) ==
    /\ vector_db # NoDb
    /\ progress.attempts < MaxAttempts
    /\ LET r == generate_response(progress, oracle, hinting)
       IN  /\ progress' = r.progress
           /\ congratulations' =
                  congratulations +
                  (IF r.response.kind = "congratulations" THEN 1 ELSE 0)
           /\ hint_run' = IF hint_run >= 0 /\ r.response.kind = "hint"
                          THEN hint_run + 1 ELSE -1
           /\ call' = [exercise |-> selected_exercise,
                       vector_db |-> vector_db,
                       before |-> progress,
                       oracle |-> oracle, hinting |-> hinting,
                       template |-> r.template, response |-> r.response]
    /\ load_status' = "none"
    /\ UNCHANGED <<vector_db, selected_exercise, builds>>
    /\ UNCHANGED teacher_vars

Next ==
    \/ \E e \in Exercises, ok \in BOOLEAN : Run(e, ok)
    \/ \E oracle \in OracleResults, hinting \in HintingResults :
            SubmitAnswer(oracle, hinting)

(* --------------------------- teacher_app.py ---------------------------- *)

\* Path.write_bytes / Path.write_text on a file in state  file
WriteFile(file, outcome) ==
    IF outcome = "ok" THEN "written"
    ELSE IF outcome = "partial" THEN "partial"
    ELSE file

\* lines 27-53 and 76-98: the PDF is written first, the metadata after it;
\* the first write that raises ends the try block
SaveExercise(dir, id, filled, pdf_write, json_write) ==
    IF filled # Fields THEN dir
    ELSE LET pdf == WriteFile(dir[id].pdf, pdf_write)
         IN  IF pdf_write # "ok"
             THEN [dir EXCEPT ![id].pdf = pdf]
             ELSE [dir EXCEPT ![id].pdf = pdf,
                              ![id].json = WriteFile(dir[id].json, json_write)]

\* lines 101-115: the PDF is unlinked first, the metadata after it
DeleteExercise(dir, id, pdf_unlink, json_unlink) ==
    IF dir[id].pdf # "absent" /\ pdf_unlink = "raises" THEN dir
    ELSE LET no_pdf == [dir EXCEPT ![id].pdf = "absent"]
         IN  IF no_pdf[id].json # "absent" /\ json_unlink = "raises"
             THEN no_pdf
             ELSE [no_pdf EXCEPT ![id].json = "absent"]

\* "Create Exercise" is submitted
Create(filled, pdf_write, json_write) ==
    /\ exercises_dir' =
           SaveExercise(exercises_dir, now, filled, pdf_write, json_write)
    /\ handled' = [kind |-> "create", id |-> now, filled |-> filled,
                   before |-> exercises_dir]
    /\ UNCHANGED now
    /\ UNCHANGED vars

\* "Save Changes" is submitted for a listed exercise; the listing shows the
\* exercises whose <id>.json json.load can read
Edit(id, filled, pdf_write, json_write) ==
    /\ exercises_dir[id].json = "written"
    /\ exercises_dir' =
           SaveExercise(exercises_dir, id, filled, pdf_write, json_write)
    /\ handled' = [kind |-> "edit", id |-> id, filled |-> filled,
                   before |-> exercises_dir]
    /\ UNCHANGED now
    /\ UNCHANGED vars

\* "Delete" is pressed for a listed exercise
Delete(id, pdf_unlink, json_unlink) ==
    /\ exercises_dir[id].json = "written"
    /\ exercises_dir' =
           DeleteExercise(exercises_dir, id, pdf_unlink, json_unlink)
    /\ handled' = [kind |-> "delete", id |-> id, filled |-> {},
                   before |-> exercises_dir]
    /\ UNCHANGED now
    /\ UNCHANGED vars

\* the clock moves to the next second
Tick ==
    /\ now < MaxTime
    /\ now' = now + 1
    /\ UNCHANGED <<exercises_dir, handled>>
    /\ UNCHANGED vars

TeacherNext ==
    \/ \E filled \in SUBSET Fields, pdf_write \in WriteOutcomes,
          json_write \in WriteOutcomes :
            Create(filled, pdf_write, json_write)
    \/ \E id \in ExerciseIds, filled \in SUBSET Fields,
          pdf_write \in WriteOutcomes, json_write \in WriteOutcomes :
            Edit(id, filled, pdf_write, json_write)
    \/ \E id \in ExerciseIds, pdf_unlink \in UnlinkOutcomes,
          json_unlink \in UnlinkOutcomes :
            Delete(id, pdf_unlink, json_unlink)
    \/ Tick

(* ---------------------------- specifications --------------------------- *)

all_vars == <<vars, teacher_vars>>

\* the student session, with the exercise store left alone
Spec == SessionInit /\ [][Next]_all_vars

\* the teacher session, with no student session running
TeacherSpec == SessionInit /\ [][TeacherNext]_all_vars

(* ------------------------------ properties ---------------------------- *)

\* generate_response has been called at least once
Called == call.exercise # NoExercise

\* the oracle returned a similarity above the threshold
JudgedCorrect ==
    Called /\ ~call.oracle.raised /\ call.oracle.value > similarity_threshold

\* the oracle returned a similarity at or below the threshold
JudgedIncorrect ==
    Called /\ ~call.oracle.raised /\ call.oracle.value <= similarity_threshold

\* the incorrect branch ran and the chat model returned a text
HintGenerated == JudgedIncorrect /\ call.hinting.raised = "nobody"

\* C1: when the similarity is at or below the threshold and the chat model
\* call fails, the apology string is returned and attempts and hints_given
\* are what they were before the call.
C1_ApologyLeavesProgress ==
    (JudgedIncorrect /\ call.hinting.raised = "llm")
        => /\ call.response = ApologyMessage
           /\ progress.attempts = call.before.attempts
           /\ progress.hints_given = call.before.hints_given

\* C2: when the oracle, the retriever or prompt formatting raises, the call
\* returns the fallback message and completed, attempts and hints_given are
\* unchanged.
C2_FallbackLeavesProgress ==
    (Called /\ (\/ call.oracle.raised
                \/ JudgedIncorrect /\ call.hinting.raised \in {"retriever", "format"}))
        => /\ call.response = FallbackMessage
           /\ progress = call.before

C2_Witness ==
    /\ JudgedIncorrect
    /\ call.hinting.raised = "format"
    /\ call.before.attempts = 2
    /\ call.before.hints_given # <<>>
    /\ call.response.kind = "fallback"

\* the encouragement table of the specification
EncouragementLine(attempts) ==
    IF attempts = 0 THEN "Let's start exploring this together!"
    ELSE IF attempts = 1 THEN "You're making progress! Keep thinking about it."
    ELSE IF attempts = 2 THEN "You're getting closer! Consider these points:"
    ELSE IF attempts = 3
    THEN "Don't give up! Here's a different way to think about it:"
    ELSE IF attempts = 4
    THEN "You're putting in great effort! Let's break this down further:"
    ELSE "Keep persevering! Here's some guidance:"

\* C3: a call with similarity at or below the threshold whose hint generation
\* succeeds adds exactly 1 to attempts and returns the encouragement line of
\* the attempts value before the increment, followed by the generated hint.
C3_HintCountsOneAttempt ==
    HintGenerated
        => /\ progress.attempts = call.before.attempts + 1
           /\ call.response.kind = "hint"
           /\ call.response.text = EncouragementLine(call.before.attempts)
           /\ call.response.hint = strip(call.hinting.value)

C3_Witness ==
    /\ HintGenerated
    /\ call.oracle.value = similarity_threshold
    /\ call.before.attempts = 5
    /\ call.hinting.value = <<" ", "b">>
    /\ call.response.hint = <<"b">>

\* C4: a call with similarity above the threshold on a Progress not yet
\* completed sets completed, leaves attempts and hints_given alone, and
\* congratulates with the first-try wording exactly when attempts is 0 and
\* otherwise reports attempts + 1.
C4_FirstSuccessCongratulates ==
    (JudgedCorrect /\ ~call.before.completed)
        => /\ progress.completed
           /\ progress.attempts = call.before.attempts
           /\ progress.hints_given = call.before.hints_given
           /\ call.response.kind = "congratulations"
           /\ (call.response.text = "first try") <=> (call.before.attempts = 0)
           /\ call.before.attempts # 0
                  => /\ call.response.text = "after n attempts"
                     /\ call.response.n = call.before.attempts + 1

C4_Witness ==
    /\ JudgedCorrect
    /\ ~call.before.completed
    /\ call.before.attempts = 2
    /\ call.response.n = 3

\* C5: once completed is true it stays true, the congratulation is returned
\* at most once, and every later call with similarity above the threshold
\* returns the placeholder and leaves the Progress unchanged.
C5_CompletedIsTerminal ==
    /\ [][progress.completed => progress'.completed]_vars
    /\ [](congratulations <= 1)
    /\ []((JudgedCorrect /\ call.before.completed)
            => /\ call.response.kind = "placeholder"
               /\ call.response.text = "."
               /\ progress = call.before)

C5_Witness ==
    /\ JudgedCorrect
    /\ call.before.completed
    /\ call.before.attempts > 0
    /\ congratulations = 1
    /\ call.response.kind = "placeholder"

\* C6: in a student session, the first evaluation for a different selected
\* exercise runs against a fresh Progress.
C6_FreshProgressPerExercise ==
    [][(call.exercise # NoExercise /\ call'.exercise # call.exercise)
          => call'.before = LearningProgress]_vars

\* C7: from a fresh Progress, after any sequence of calls with failures
\* interleaved, len(hints_given) <= attempts, and attempts never decreases.
C7_HintsBoundedByAttempts ==
    /\ [](Len(progress.hints_given) <= progress.attempts)
    /\ [][progress'.attempts >= progress.attempts]_vars

C7_Witness ==
    /\ call.response.kind = "fallback"
    /\ progress.attempts = 3
    /\ Len(progress.hints_given) = 3

\* order of the three prompt templates
TemplateTier(template) ==
    IF template = "first_attempt" THEN 1
    ELSE IF template = "making_progress" THEN 2
    ELSE IF template = "struggling" THEN 3
    ELSE 0

\* C8: the template is chosen by attempts before the increment (0: first
\* attempt, 1-2: more specific hints, >= 3: step by step); in a run of
\* successful incorrect evaluations from a fresh Progress the 1st call uses
\* tier 1, the 2nd and 3rd tier 2, later ones tier 3, and the tier never
\* moves back.
C8_TemplateTiers ==
    /\ []((Called /\ call.template # NoTemplate)
            => TemplateTier(call.template) =
                 IF call.before.attempts = 0 THEN 1
                 ELSE IF call.before.attempts \in {1, 2} THEN 2 ELSE 3)
    /\ [](HintGenerated => call.template # NoTemplate)
    /\ [](hint_run = 1 => TemplateTier(call.template) = 1)
    /\ [](hint_run \in {2, 3} => TemplateTier(call.template) = 2)
    /\ [](hint_run >= 4 => TemplateTier(call.template) = 3)
    /\ [][(call.template # NoTemplate /\ call'.template # NoTemplate)
            => TemplateTier(call'.template) >= TemplateTier(call.template)]_vars

C8_Witness ==
    /\ hint_run = 4
    /\ call.template = "struggling"
    /\ call.before.attempts = 3

\* C9: a successful hint generation appends the hint when it is non-empty and
\* not already present and leaves hints_given unchanged otherwise, so that
\* hints_given never holds a duplicate or an empty string.
C9_HintsDistinctNonEmpty ==
    /\ HintGenerated
          => progress.hints_given =
               IF /\ call.response.hint # <<>>
                  /\ ~In(call.response.hint, call.before.hints_given)
               THEN Append(call.before.hints_given, call.response.hint)
               ELSE call.before.hints_given
    /\ \A i \in 1..Len(progress.hints_given) :
          /\ progress.hints_given[i] # <<>>
          /\ \A j \in 1..Len(progress.hints_given) :
                progress.hints_given[i] = progress.hints_given[j] => i = j

\* C10: the vector store is built at most once in a session, from the PDF of
\* the exercise selected at the first successful load; every evaluation is
\* passed that store, whatever exercise is selected; a failed load stores
\* nothing and the next run loads again.
C10_StoreBuiltOnce ==
    /\ [](builds <= 1)
    /\ []((builds = 0) <=> (vector_db = NoDb))
    /\ [](load_status = "error" => vector_db = NoDb)
    /\ [](Called => call.vector_db = vector_db)
    /\ [][vector_db # NoDb => vector_db' = vector_db]_vars
    /\ [][(vector_db = NoDb /\ vector_db' # NoDb)
            => /\ vector_db' = selected_exercise'
               /\ load_status' = "success"]_vars
    /\ [][vector_db = NoDb => load_status' \in {"success", "error"}]_vars

C10_Witness ==
    /\ Called
    /\ call.exercise = "ex2"
    /\ call.vector_db = "ex1"
    /\ vector_db = "ex1"
    /\ builds = 1

\* C11: in the teacher application, whenever a create, edit or delete has
\* been handled (a file write or unlink failing partway included), every
\* <id>.json in the exercises directory has a matching <id>.pdf, and a create
\* or edit submitted with a field missing writes no file.
C11_EveryJsonHasPdf ==
    /\ \A id \in ExerciseIds :
          exercises_dir[id].json # "absent" => exercises_dir[id].pdf # "absent"
    /\ (handled.kind \in {"create", "edit"} /\ handled.filled # Fields)
          => exercises_dir = handled.before

=============================================================================
